---- MODULE Spec2Model ----
(***************************************************************************)
(* Store-monitoring report service: business-hours arithmetic              *)
(* (business_hours_utils.py, report_generator.py) and the report job       *)
(* lifecycle (report_service.py, report_generator.py, main.py).            *)
(*                                                                         *)
(* The specifications share the variables below:                           *)
(*   SpecCalendar  the calendar and metrics functions applied to inputs    *)
(*                 drawn from bounded sets                                 *)
(*   Spec          the job lifecycle: triggers, workers and pollers        *)
(*   SpecFair      Spec with the threads scheduled fairly                  *)
(*   SpecWindow    one job's reads of the observation store while          *)
(*                 import_csv_data replaces the store's rows               *)
(*   SpecLookup    the per-store lookups of timezone and calendar          *)
(***************************************************************************)
EXTENDS Integers, Sequences, FiniteSets, TLC

VARIABLES
    business_hours,   \* Dict[int, Tuple[time, time]]: weekday -> <<start, end>>
    start_time,       \* span start (a local datetime)
    end_time,         \* span end (a local datetime)
    op,               \* the function last applied ("none" before any)
    arg,              \* the further inputs it was applied to
    out,              \* what it returned
    report_status,    \* the report_status table: report_id -> committed row, or None
    store_status,     \* the distinct store ids of the store_status table, in query order
    csv_files,        \* the reports directory: report_id -> rows of report_<id>.csv, or None
    tpc,              \* report_id -> where the trigger_report call that drew it stands
    wpc,              \* report_id -> where its background thread stands
    session,          \* report_id -> the ReportStatus object in the worker's session
    store_ids,        \* report_id -> the worker's store_ids list
    report_data,      \* report_id -> the worker's report_data list
    raised,           \* report_id -> the first job-level step that raised (history)
    failed_stores,    \* report_id -> the stores whose metrics raised in the running job
    writes,           \* report_id -> committed changes of its row since the insert (history)
    last_poll,        \* the answer of the get_report call just made, if the last step was one
    observations,     \* the store_status table: the set of rows (store_id, timestamp_utc)
    max_timestamp,    \* generate_report_async's current_time: <<>> before it is read, then <<t>>
    job_store_ids,    \* the store_ids list of the job the windows are followed for
    window_pc,        \* where that job stands: the step, and the store and window fetched next
    last_fetch,       \* the latest get_store_status_in_range call and its rows, <<>> before any
    import_pc         \* import_csv_data: "idle", or "cleared" between its two commits

calcVars == <<business_hours, start_time, end_time, op, arg, out>>

jobVars == <<report_status, store_status, csv_files, tpc, wpc, session, store_ids,
             report_data, raised, failed_stores, writes, last_poll>>

windowVars == <<observations, max_timestamp, job_store_ids, window_pc, last_fetch, import_pc>>

vars == <<calcVars, jobVars, windowVars>>

-----------------------------------------------------------------------------
(* datetime.time and datetime.datetime                                     *)

\* datetime.time(h, m, s): microsecond defaults to 0
Time(h, m, s) == [hour |-> h, minute |-> m, second |-> s, microsecond |-> 0]

\* time <= time: lexicographic on (hour, minute, second, microsecond)
TimeLE(a, b) ==
    \/ a.hour < b.hour
    \/ a.hour = b.hour /\ a.minute < b.minute
    \/ a.hour = b.hour /\ a.minute = b.minute /\ a.second < b.second
    \/ a.hour = b.hour /\ a.minute = b.minute /\ a.second = b.second
       /\ a.microsecond <= b.microsecond

TimeLT(a, b) == TimeLE(a, b) /\ a # b

\* A naive datetime: day ordinal (day 0 is a Monday), second of the day, microsecond
DateTime(d, h, m, s) == [day |-> d, sec |-> h * 3600 + m * 60 + s, us |-> 0]

\* datetime.weekday(): 0 = Monday .. 6 = Sunday
weekday(dt) == dt.day % 7

\* datetime.time()
time_of(dt) ==
    [hour |-> dt.sec \div 3600, minute |-> (dt.sec % 3600) \div 60,
     second |-> dt.sec % 60, microsecond |-> dt.us]

\* datetime.replace(hour=, minute=, second=, microsecond=)
replace(dt, h, m, s, us) == [day |-> dt.day, sec |-> h * 3600 + m * 60 + s, us |-> us]

\* datetime + timedelta(days=n)
plus_days(dt, n) == [dt EXCEPT !.day = dt.day + n]

DtLT(a, b) ==
    \/ a.day < b.day
    \/ a.day = b.day /\ a.sec < b.sec
    \/ a.day = b.day /\ a.sec = b.sec /\ a.us < b.us

DtLE(a, b) == a = b \/ DtLT(a, b)

\* max() that keeps its first argument: the interval is not clipped at the span's start
DtMax_first(a, b) == a

DtMax(a, b) == IF DtLT(a, b) THEN b ELSE a

DtMin(a, b) == IF DtLT(b, a) THEN b ELSE a

\* (a - b) as a timedelta, for a >= b: whole seconds and microseconds
Minus(a, b) ==
    LET s == (a.day - b.day) * 86400 + (a.sec - b.sec)
    IN  IF a.us >= b.us THEN [seconds |-> s, microseconds |-> a.us - b.us]
        ELSE [seconds |-> s - 1, microseconds |-> 1000000 + a.us - b.us]

\* int(timedelta.total_seconds()) for a non-negative timedelta: truncation
IntTotalSeconds(td) == td.seconds

\* float accumulation total += timedelta.total_seconds(), kept exact
AddSeconds(total, td) ==
    LET us == total.microseconds + td.microseconds
    IN  [seconds |-> total.seconds + td.seconds + us \div 1000000,
         microseconds |-> us % 1000000]

ZeroSeconds == [seconds |-> 0, microseconds |-> 0]

-----------------------------------------------------------------------------
(* BusinessHoursCalculator                                                 *)

\* is_within_business_hours_enhanced without the check of the previous day's
\* overnight hours
is_within_business_hours_no_carry(local_timestamp, bh) ==
    LET day_of_week == weekday(local_timestamp)
        current_time == time_of(local_timestamp)
    IN  /\ day_of_week \in DOMAIN bh
        /\ LET st == bh[day_of_week][1]
               en == bh[day_of_week][2]
           IN  IF TimeLE(st, en)
               THEN TimeLE(st, current_time) /\ TimeLE(current_time, en)
               ELSE TimeLE(st, current_time) \/ TimeLE(current_time, en)

is_within_business_hours_enhanced(local_timestamp, bh) ==
    LET day_of_week == weekday(local_timestamp)
        current_time == time_of(local_timestamp)
        prev_day == (day_of_week - 1) % 7
        today ==
            /\ day_of_week \in DOMAIN bh
            /\ LET st == bh[day_of_week][1]
                   en == bh[day_of_week][2]
               IN  IF TimeLE(st, en)
                   THEN TimeLE(st, current_time) /\ TimeLE(current_time, en)
                   ELSE TimeLE(st, current_time) \/ TimeLE(current_time, en)
        carry ==
            /\ prev_day \in DOMAIN bh
            /\ LET prev_start == bh[prev_day][1]
                   prev_end == bh[prev_day][2]
               IN  TimeLT(prev_end, prev_start) /\ TimeLE(current_time, prev_end)
    IN  today \/ carry

\* One pass of the while loop of get_business_hours_intervals: the intervals
\* appended for current_date
DayIntervals(current_date, start_date, end_date, bh) ==
    LET day_of_week == weekday(current_date)
    IN  IF day_of_week \notin DOMAIN bh THEN <<>>
        ELSE
          LET st == bh[day_of_week][1]
              en == bh[day_of_week][2]
              interval_start == replace(current_date, st.hour, st.minute, st.second, 0)
          IN  IF TimeLE(st, en)
              THEN LET interval_end == replace(current_date, en.hour, en.minute, en.second, 0)
                       s == DtMax(interval_start, start_date)
                       e == DtMin(interval_end, end_date)
                   IN  IF DtLT(s, e) THEN << <<s, e>> >> ELSE <<>>
              ELSE LET midnight == replace(current_date, 23, 59, 59, 999999)
                       s1 == DtMax(interval_start, start_date)
                       e1 == DtMin(midnight, end_date)
                       next_day == plus_days(current_date, 1)
                       s2 == DtMax(replace(next_day, 0, 0, 0, 0), start_date)
                       e2 == DtMin(replace(next_day, en.hour, en.minute, en.second, 0),
                                   end_date)
                   IN  (IF DtLT(s1, e1) THEN << <<s1, e1>> >> ELSE <<>>)
                       \o (IF DtLT(s2, e2) THEN << <<s2, e2>> >> ELSE <<>>)

RECURSIVE IntervalsLoop(_, _, _, _)
IntervalsLoop(current_date, start_date, end_date, bh) ==
    IF DtLE(current_date, end_date)
    THEN DayIntervals(current_date, start_date, end_date, bh)
         \o IntervalsLoop(plus_days(current_date, 1), start_date, end_date, bh)
    ELSE <<>>

get_business_hours_intervals(start_date, end_date, bh) ==
    IntervalsLoop(replace(start_date, 0, 0, 0, 0), start_date, end_date, bh)

RECURSIVE SumIntervals(_)
SumIntervals(intervals) ==
    IF intervals = <<>> THEN 0
    ELSE IntTotalSeconds(Minus(intervals[1][2], intervals[1][1]))
         + SumIntervals(Tail(intervals))

calculate_total_business_seconds_precise(st, en, bh) ==
    IF DtLE(en, st) THEN 0
    ELSE SumIntervals(get_business_hours_intervals(st, en, bh))

-----------------------------------------------------------------------------
(* ReportGenerator: business seconds                                       *)

\* DayOverlap without the test period_start < period_end
DayOverlap_unchecked(current_time, en_time, bh) ==
    LET day_of_week == weekday(current_time)
    IN  IF day_of_week \notin DOMAIN bh THEN ZeroSeconds
        ELSE
          LET start_business == bh[day_of_week][1]
              end_business == bh[day_of_week][2]
              business_start == replace(current_time, start_business.hour,
                                        start_business.minute, start_business.second, 0)
              business_end0 == replace(current_time, end_business.hour,
                                       end_business.minute, end_business.second, 0)
              business_end == IF TimeLT(end_business, start_business)
                              THEN plus_days(business_end0, 1) ELSE business_end0
              period_start == DtMax(current_time, business_start)
              period_end == DtMin(en_time, business_end)
          IN  Minus(period_end, period_start)

\* One pass of the while loop of _calculate_business_seconds_between: the
\* seconds added for the day of current_time
DayOverlap(current_time, en_time, bh) ==
    LET day_of_week == weekday(current_time)
    IN  IF day_of_week \notin DOMAIN bh THEN ZeroSeconds
        ELSE
          LET start_business == bh[day_of_week][1]
              end_business == bh[day_of_week][2]
              business_start == replace(current_time, start_business.hour,
                                        start_business.minute, start_business.second, 0)
              business_end0 == replace(current_time, end_business.hour,
                                       end_business.minute, end_business.second, 0)
              business_end == IF TimeLT(end_business, start_business)
                              THEN plus_days(business_end0, 1) ELSE business_end0
              period_start == DtMax(current_time, business_start)
              period_end == DtMin(en_time, business_end)
          IN  IF DtLT(period_start, period_end)
              THEN Minus(period_end, period_start) ELSE ZeroSeconds

RECURSIVE DayWalk(_, _, _)
DayWalk(current_time, en_time, bh) ==
    IF DtLT(current_time, en_time)
    THEN AddSeconds(DayOverlap(current_time, en_time, bh),
                    DayWalk(replace(plus_days(current_time, 1), 0, 0, 0, 0), en_time, bh))
    ELSE ZeroSeconds

calculate_business_seconds_between(st, en, bh) ==
    IF DtLE(en, st) THEN 0
    ELSE IntTotalSeconds(DayWalk(st, en, bh))

-----------------------------------------------------------------------------
(* Timezone handling (BusinessHoursCalculator, DataProcessor)              *)

default_timezone == "America/Chicago"

\* pytz.all_timezones, restricted to the zones the model uses
valid_timezones == {"America/Chicago", "UTC"}

validate_timezone(timezone_str) ==
    IF timezone_str \in valid_timezones THEN timezone_str ELSE default_timezone

\* The zone's offset from UTC in hours (standard time; the modelled days hold no
\* daylight-saving transition)
UtcOffsetHours(tz) == IF tz = "America/Chicago" THEN -6 ELSE 0

\* datetime shifted by a whole number of seconds, with the day carried
Shift(dt, seconds) ==
    LET s == dt.sec + seconds
    IN  [day |-> dt.day + (IF s >= 0 THEN s \div 86400 ELSE -((86399 - s) \div 86400)),
         sec |-> s % 86400, us |-> dt.us]

convert_utc_to_local_safe(utc_timestamp, timezone_str) ==
    Shift(utc_timestamp, UtcOffsetHours(validate_timezone(timezone_str)) * 3600)

-----------------------------------------------------------------------------
(* ReportGenerator: interpolation                                          *)

\* local_status_data.sort(key=timestamp): a stable insertion sort
RECURSIVE InsertSorted(_, _)
InsertSorted(sorted, x) ==
    IF sorted = <<>> THEN <<x>>
    ELSE IF DtLT(x.timestamp, sorted[1].timestamp) THEN <<x>> \o sorted
    ELSE <<sorted[1]>> \o InsertSorted(Tail(sorted), x)

RECURSIVE SortByTimestamp(_)
SortByTimestamp(data) ==
    IF data = <<>> THEN <<>>
    ELSE InsertSorted(SortByTimestamp(SubSeq(data, 1, Len(data) - 1)), data[Len(data)])

\* The for loop attributing each gap to the observation that ends it
RECURSIVE InterpolateLoop_later_state(_, _, _, _, _)
InterpolateLoop_later_state(data, i, local_start, bh, acc) ==
    IF i > Len(data) THEN acc
    ELSE
      LET period_start == IF i = 1 THEN local_start ELSE data[i - 1].timestamp
          business_seconds == calculate_business_seconds_between(period_start,
                                                                 data[i].timestamp, bh)
          acc2 == IF data[i].status = "active"
                  THEN [acc EXCEPT !.uptime = @ + business_seconds]
                  ELSE [acc EXCEPT !.downtime = @ + business_seconds]
      IN  InterpolateLoop_later_state(data, i + 1, local_start, bh, acc2)

\* The for loop of _interpolate_uptime_downtime from index i on, added to acc
RECURSIVE InterpolateLoop(_, _, _, _, _)
InterpolateLoop(data, i, local_start, bh, acc) ==
    IF i > Len(data) THEN acc
    ELSE
      LET current_obs == data[i]
          period_start == IF i = 1 THEN local_start ELSE data[i - 1].timestamp
          period_end == current_obs.timestamp
          business_seconds == calculate_business_seconds_between(period_start, period_end, bh)
          status == IF i = 1 THEN current_obs.status ELSE data[i - 1].status
          acc2 == IF status = "active"
                  THEN [acc EXCEPT !.uptime = @ + business_seconds]
                  ELSE [acc EXCEPT !.downtime = @ + business_seconds]
      IN  InterpolateLoop(data, i + 1, local_start, bh, acc2)

interpolate_uptime_downtime(data, st, en, timezone_str, bh) ==
    LET local_start == convert_utc_to_local_safe(st, timezone_str)
        local_end == convert_utc_to_local_safe(en, timezone_str)
    IN  IF Len(data) = 1
        THEN LET observation == data[1]
                 business_seconds_before ==
                     calculate_business_seconds_between(local_start, observation.timestamp, bh)
                 business_seconds_after ==
                     calculate_business_seconds_between(observation.timestamp, local_end, bh)
             IN  IF observation.status = "active"
                 THEN [uptime |-> business_seconds_before + business_seconds_after,
                       downtime |-> 0]
                 ELSE [uptime |-> 0,
                       downtime |-> business_seconds_before + business_seconds_after]
        ELSE LET acc == InterpolateLoop(data, 1, local_start, bh,
                                        [uptime |-> 0, downtime |-> 0])
             IN  IF data # <<>>
                 THEN LET last_obs == data[Len(data)]
                          business_seconds ==
                              calculate_business_seconds_between(last_obs.timestamp,
                                                                 local_end, bh)
                      IN  IF last_obs.status = "active"
                          THEN [acc EXCEPT !.uptime = @ + business_seconds]
                          ELSE [acc EXCEPT !.downtime = @ + business_seconds]
                 ELSE acc

\* _calculate_total_business_seconds answering 0 for every window
calculate_total_business_seconds_none(st, en, timezone_str, bh) == 0

calculate_total_business_seconds(st, en, timezone_str, bh) ==
    calculate_business_seconds_between(convert_utc_to_local_safe(st, timezone_str),
                                       convert_utc_to_local_safe(en, timezone_str), bh)

\* The loop of _calculate_period_metrics without the business-hours test: every
\* observation is kept
RECURSIVE LocalStatusData_unfiltered(_, _, _)
LocalStatusData_unfiltered(fetched, timezone_str, bh) ==
    IF fetched = <<>> THEN <<>>
    ELSE LET status == fetched[1]
             local_timestamp == convert_utc_to_local_safe(status.timestamp_utc, timezone_str)
         IN  <<[timestamp |-> local_timestamp, status |-> status.status,
                utc_timestamp |-> status.timestamp_utc]>>
             \o LocalStatusData_unfiltered(Tail(fetched), timezone_str, bh)

\* The loop of _calculate_period_metrics that converts each observation to local
\* time and keeps those within business hours
RECURSIVE LocalStatusData(_, _, _)
LocalStatusData(fetched, timezone_str, bh) ==
    IF fetched = <<>> THEN <<>>
    ELSE LET status == fetched[1]
             local_timestamp == convert_utc_to_local_safe(status.timestamp_utc, timezone_str)
             rest == LocalStatusData(Tail(fetched), timezone_str, bh)
         IN  IF is_within_business_hours_enhanced(local_timestamp, bh)
             THEN <<[timestamp |-> local_timestamp, status |-> status.status,
                     utc_timestamp |-> status.timestamp_utc]>> \o rest
             ELSE rest

\* status_data is what get_store_status_in_range returned
calculate_period_metrics(fetched, st, en, timezone_str, bh) ==
    IF fetched = <<>>
    THEN [uptime |-> 0, downtime |-> calculate_total_business_seconds(st, en, timezone_str, bh)]
    ELSE LET local_status_data == LocalStatusData(fetched, timezone_str, bh)
         IN  IF local_status_data = <<>>
             THEN [uptime |-> 0,
                   downtime |-> calculate_total_business_seconds(st, en, timezone_str, bh)]
             ELSE interpolate_uptime_downtime(SortByTimestamp(local_status_data),
                                              st, en, timezone_str, bh)

-----------------------------------------------------------------------------
(* Inputs of SpecCalendar                                                  *)

\* Index of the last instant of the grid (instants 0..MaxInstant)
MaxInstant == 13

\* Most observations one fetch returns
MaxObs == 2

\* Times of day of the grid: the calendars' open and close times, midnight, the
\* last second of a day and a time inside the overnight carry-over
GridTimes ==
    <<Time(0, 0, 0), Time(3, 0, 0), Time(6, 0, 0), Time(9, 0, 0),
      Time(17, 0, 0), Time(22, 0, 0), Time(23, 59, 59)>>

Instant(i) ==
    LET t == GridTimes[(i % Len(GridTimes)) + 1]
    IN  DateTime(i \div Len(GridTimes), t.hour, t.minute, t.second)

Instants == {Instant(i) : i \in 0..MaxInstant}

\* Monday to Friday 09:00-17:00 (test_business_hours.py, test 1)
MonFri9to5 == [d \in 0..4 |-> <<Time(9, 0, 0), Time(17, 0, 0)>>]

\* Monday and Tuesday 22:00-06:00 (test_business_hours.py, test 2)
Overnight == [d \in 0..1 |-> <<Time(22, 0, 0), Time(6, 0, 0)>>]

\* Monday 22:00-06:00 only
MonOvernight == [d \in {0} |-> <<Time(22, 0, 0), Time(6, 0, 0)>>]

\* Sunday 22:00-06:00 only: carries over into Monday
SunOvernight == [d \in {6} |-> <<Time(22, 0, 0), Time(6, 0, 0)>>]

\* Monday 22:00-06:00, Tuesday 03:00-09:00: the carry-over meets Tuesday's interval
WrapOverlap ==
    [d \in 0..1 |-> IF d = 0 THEN <<Time(22, 0, 0), Time(6, 0, 0)>>
                    ELSE <<Time(3, 0, 0), Time(9, 0, 0)>>]

\* The 24/7 default of get_business_hours
Default247 == [d \in 0..6 |-> <<Time(0, 0, 0), Time(23, 59, 59)>>]

\* Every weekday skipped: no entry at all
NoHours == [d \in {} |-> <<Time(0, 0, 0), Time(0, 0, 0)>>]

Calendars ==
    {MonFri9to5, Overnight, MonOvernight, SunOvernight, WrapOverlap, Default247, NoHours}

Timezones == {"America/Chicago"}

\* A UTC instant whose local time in the zone is dt
ToUtc(dt, timezone_str) ==
    Shift(dt, -(UtcOffsetHours(validate_timezone(timezone_str)) * 3600))

\* StoreStatus.status
Statuses == {"active", "inactive"}

\* Results of get_store_status_in_range: n rows at the grid instants of `within`
\* (local) from lo on, ordered by timestamp_utc
RECURSIVE FetchedRows(_, _, _, _, _)
FetchedRows(n, lo, hi, within, timezone_str) ==
    IF n = 0 THEN {<<>>}
    ELSE UNION {{<<[timestamp_utc |-> ToUtc(Instant(i), timezone_str), status |-> s]>> \o r :
                    r \in FetchedRows(n - 1, i, hi, within, timezone_str), s \in Statuses} :
                i \in (lo..hi) \cap within}

-----------------------------------------------------------------------------
(* SpecCalendar: the functions applied to the drawn calendar and span      *)

None == "None"

\* Most report ids drawn by trigger_report
MaxJobs == 2

ReportIds == 1..MaxJobs

NoRows == [r \in {} |-> None]

\* No job's windows are followed
WindowsIdle ==
    /\ observations = {}
    /\ max_timestamp = <<>>
    /\ job_store_ids = <<>>
    /\ window_pc = [step |-> "idle", store |-> 0, window |-> 0]
    /\ last_fetch = <<>>
    /\ import_pc = "idle"

\* No job runs in SpecCalendar
JobsIdle ==
    /\ report_status = NoRows
    /\ store_status = <<>>
    /\ csv_files = NoRows
    /\ tpc = [r \in ReportIds |-> "idle"]
    /\ wpc = [r \in ReportIds |-> "none"]
    /\ session = NoRows
    /\ store_ids = [r \in ReportIds |-> <<>>]
    /\ report_data = [r \in ReportIds |-> <<>>]
    /\ raised = [r \in ReportIds |-> None]
    /\ failed_stores = [r \in ReportIds |-> {}]
    /\ writes = [r \in ReportIds |-> 0]
    /\ last_poll = <<>>

InitCalendar ==
    /\ JobsIdle
    /\ WindowsIdle
    /\ business_hours \in Calendars
    /\ start_time \in Instants
    /\ end_time \in Instants
    /\ op = "none"
    /\ arg = <<>>
    /\ out = <<>>

IsWithinBusinessHours ==
    /\ op = "none"
    /\ \E t \in Instants :
           /\ arg' = t
           /\ out' = is_within_business_hours_enhanced(t, business_hours)
    /\ op' = "is_within_business_hours_enhanced"
    /\ UNCHANGED <<business_hours, start_time, end_time, jobVars, windowVars>>

GetBusinessHoursIntervals ==
    /\ op = "none"
    /\ op' = "get_business_hours_intervals"
    /\ arg' = <<>>
    /\ out' = get_business_hours_intervals(start_time, end_time, business_hours)
    /\ UNCHANGED <<business_hours, start_time, end_time, jobVars, windowVars>>

CalculateTotalBusinessSecondsPrecise ==
    /\ op = "none"
    /\ op' = "calculate_total_business_seconds_precise"
    /\ arg' = <<>>
    /\ out' = calculate_total_business_seconds_precise(start_time, end_time, business_hours)
    /\ UNCHANGED <<business_hours, start_time, end_time, jobVars, windowVars>>

CalculateBusinessSecondsBetween ==
    /\ op = "none"
    /\ op' = "_calculate_business_seconds_between"
    /\ arg' = <<>>
    /\ out' = calculate_business_seconds_between(start_time, end_time, business_hours)
    /\ UNCHANGED <<business_hours, start_time, end_time, jobVars, windowVars>>

\* The grid instants within [start_time, end_time]
InWindow == {i \in 0..MaxInstant : DtLE(start_time, Instant(i)) /\ DtLE(Instant(i), end_time)}

\* _calculate_period_metrics for the window whose local bounds are start_time and
\* end_time, on any fetch result within the window
CalculatePeriodMetrics ==
    /\ op = "none"
    /\ \E tz \in Timezones, n \in 0..MaxObs :
        \E fetched \in FetchedRows(n, 0, MaxInstant, InWindow, tz) :
            /\ arg' = [timezone_str |-> tz, status_data |-> fetched]
            /\ out' = calculate_period_metrics(fetched, ToUtc(start_time, tz),
                                               ToUtc(end_time, tz), tz, business_hours)
    /\ op' = "_calculate_period_metrics"
    /\ UNCHANGED <<business_hours, start_time, end_time, jobVars, windowVars>>

NextCalendar ==
    \/ IsWithinBusinessHours
    \/ GetBusinessHoursIntervals
    \/ CalculateTotalBusinessSecondsPrecise
    \/ CalculateBusinessSecondsBetween
    \/ CalculatePeriodMetrics

SpecCalendar == InitCalendar /\ [][NextCalendar]_vars

-----------------------------------------------------------------------------
(* The job lifecycle: ReportService, ReportGenerator.generate_report_async, *)
(* CSVExporter.export_to_csv, get_report                                   *)

\* get_report/{report_id} with an id no trigger_report returned ("invalid-id")
UnknownId == 0

\* Results of SELECT DISTINCT store_id, in the order the database returns them
StoreIdLists == {<<>>, <<"s2", "s1">>}

\* The store ids in str order
StoreIdOrder == <<"s1", "s2">>

\* ReportStatus(report_id=..., status="Running", created_at=datetime.utcnow())
NewReportStatus(r) ==
    [report_id |-> r, status |-> "Running", created_at |-> "utcnow",
     completed_at |-> None, file_path |-> None]

\* str(self.reports_dir / f"report_{report_id}.csv")
CsvPath(r) == "reports/report_" \o ToString(r) \o ".csv"

\* A zero row that does not carry the id of the store that failed
ZeroRow_anonymous(store_id) ==
    [store_id |-> "unknown", uptime_last_hour |-> 0, uptime_last_day |-> 0,
     uptime_last_week |-> 0, downtime_last_hour |-> 0, downtime_last_day |-> 0,
     downtime_last_week |-> 0]

\* The row appended for a store whose metrics raised
ZeroRow(store_id) ==
    [store_id |-> store_id, uptime_last_hour |-> 0, uptime_last_day |-> 0,
     uptime_last_week |-> 0, downtime_last_hour |-> 0, downtime_last_day |-> 0,
     downtime_last_week |-> 0]

\* A row _calculate_store_metrics returns (minutes for the hour, hours for the
\* day and week); the numbers are those of a store seen active all week
StoreMetrics(store_id) ==
    [store_id |-> store_id, uptime_last_hour |-> 60, uptime_last_day |-> 24,
     uptime_last_week |-> 168, downtime_last_hour |-> 0, downtime_last_day |-> 0,
     downtime_last_week |-> 0]

\* validate_report_data: a non-empty list (every row built above holds the schema's
\* fields, a str store_id and numeric values)
validate_report_data(data) == data # <<>>

StoreRank(store_id) == CHOOSE k \in 1..Len(StoreIdOrder) : StoreIdOrder[k] = store_id

\* formatted_data.sort(key=store_id): a stable insertion sort
RECURSIVE InsertByStoreId(_, _)
InsertByStoreId(sorted, row) ==
    IF sorted = <<>> THEN <<row>>
    ELSE IF StoreRank(row.store_id) < StoreRank(sorted[1].store_id) THEN <<row>> \o sorted
    ELSE <<sorted[1]>> \o InsertByStoreId(Tail(sorted), row)

RECURSIVE SortByStoreId(_)
SortByStoreId(data) ==
    IF data = <<>> THEN <<>>
    ELSE InsertByStoreId(SortByStoreId(SubSeq(data, 1, Len(data) - 1)), data[Len(data)])

Init ==
    /\ business_hours = NoHours
    /\ start_time = Instant(0)
    /\ end_time = Instant(0)
    /\ op = "none"
    /\ arg = <<>>
    /\ out = <<>>
    /\ report_status = NoRows
    /\ store_status \in StoreIdLists
    /\ csv_files = NoRows
    /\ tpc = [r \in ReportIds |-> "idle"]
    /\ wpc = [r \in ReportIds |-> "none"]
    /\ session = NoRows
    /\ store_ids = [r \in ReportIds |-> <<>>]
    /\ report_data = [r \in ReportIds |-> <<>>]
    /\ raised = [r \in ReportIds |-> None]
    /\ failed_stores = [r \in ReportIds |-> {}]
    /\ writes = [r \in ReportIds |-> 0]
    /\ last_poll = <<>>
    /\ WindowsIdle

\* db.close() in _generate_report_background: the worker's session lets go of
\* the object it loaded
Close(sess, r) == [q \in DOMAIN sess \ {r} |-> sess[q]]

\* The first step that raised is kept
Raise(r, step) == raised' = [raised EXCEPT ![r] = IF @ = None THEN step ELSE @]

\* trigger_report without the commit: the record is not there when the thread starts
TriggerCommit_uncommitted(r) ==
    /\ tpc[r] = "idle"
    /\ \A q \in ReportIds : q < r => tpc[q] # "idle"
    /\ tpc' = [tpc EXCEPT ![r] = "committed"]
    /\ UNCHANGED <<calcVars, windowVars, writes, report_status, store_status, csv_files, wpc,
                 session, store_ids, report_data, raised, failed_stores>>
    /\ last_poll' = <<>>

\* trigger_report, lines 22-33: a fresh report_id, db.add and db.commit; when the
\* commit raises the row is rolled back and the exception leaves the call
TriggerCommit(r) ==
    /\ tpc[r] = "idle"
    /\ \A q \in ReportIds : q < r => tpc[q] # "idle"
    /\ \E ok \in BOOLEAN :
           IF ok
           THEN /\ report_status' = report_status @@ (r :> NewReportStatus(r))
                /\ tpc' = [tpc EXCEPT ![r] = "committed"]
           ELSE /\ tpc' = [tpc EXCEPT ![r] = "raised"]
                /\ UNCHANGED report_status
    /\ UNCHANGED <<calcVars, windowVars, writes, store_status, csv_files, wpc, session,
                 store_ids, report_data, raised, failed_stores>>
    /\ last_poll' = <<>>

\* trigger_report, lines 35-44: the thread is started and the id returned; when
\* thread.start() raises the committed row stays and no worker runs
TriggerStart(r) ==
    /\ tpc[r] = "committed"
    /\ \E ok \in BOOLEAN :
           IF ok
           THEN /\ wpc' = [wpc EXCEPT ![r] = "start"]
                /\ tpc' = [tpc EXCEPT ![r] = "returned"]
           ELSE /\ tpc' = [tpc EXCEPT ![r] = "raised"]
                /\ UNCHANGED wpc
    /\ UNCHANGED <<calcVars, windowVars, writes, report_status, store_status, csv_files,
                 session, store_ids, report_data, raised, failed_stores>>
    /\ last_poll' = <<>>

\* generate_report_async, lines 34-36: the worker's session loads the row
QueryReportStatus(r) ==
    /\ wpc[r] = "start"
    /\ \E ok \in BOOLEAN :
           IF ~ok
           THEN /\ Raise(r, "query")
                /\ wpc' = [wpc EXCEPT ![r] = "except"]
                /\ UNCHANGED session
           ELSE IF r \notin DOMAIN report_status
           THEN /\ Raise(r, "not_found")
                /\ wpc' = [wpc EXCEPT ![r] = "except"]
                /\ UNCHANGED session
           ELSE /\ session' = session @@ (r :> report_status[r])
                /\ wpc' = [wpc EXCEPT ![r] = "max_timestamp"]
                /\ UNCHANGED raised
    /\ UNCHANGED <<calcVars, windowVars, writes, report_status, store_status, csv_files, tpc,
                 store_ids, report_data, failed_stores>>
    /\ last_poll' = <<>>

\* generate_report_async, lines 39-45: get_max_timestamp
GetMaxTimestamp(r) ==
    /\ wpc[r] = "max_timestamp"
    /\ \E ok \in BOOLEAN :
           IF ok
           THEN /\ wpc' = [wpc EXCEPT ![r] = "store_ids"]
                /\ UNCHANGED raised
           ELSE /\ Raise(r, "max_timestamp")
                /\ wpc' = [wpc EXCEPT ![r] = "except"]
    /\ UNCHANGED <<calcVars, windowVars, writes, report_status, store_status, csv_files, tpc,
                 session, store_ids, report_data, failed_stores>>
    /\ last_poll' = <<>>

\* generate_report_async, lines 48-52: get_all_store_ids
GetAllStoreIds(r) ==
    /\ wpc[r] = "store_ids"
    /\ \E ok \in BOOLEAN :
           IF ok
           THEN /\ store_ids' = [store_ids EXCEPT ![r] = store_status]
                /\ wpc' = [wpc EXCEPT ![r] = "stores"]
                /\ UNCHANGED raised
           ELSE /\ Raise(r, "store_ids")
                /\ wpc' = [wpc EXCEPT ![r] = "except"]
                /\ UNCHANGED store_ids
    /\ UNCHANGED <<calcVars, windowVars, writes, report_status, store_status, csv_files, tpc,
                 session, report_data, failed_stores>>
    /\ last_poll' = <<>>

\* The loop without its try/except: a store's exception leaves the loop
CalculateStoreMetrics_propagate(r) ==
    /\ wpc[r] = "stores"
    /\ Len(report_data[r]) < Len(store_ids[r])
    /\ LET store_id == store_ids[r][Len(report_data[r]) + 1]
       IN  \E ok \in BOOLEAN :
               IF ok
               THEN /\ report_data' = [report_data EXCEPT
                                          ![r] = Append(@, StoreMetrics(store_id))]
                    /\ UNCHANGED <<failed_stores, raised, wpc>>
               ELSE /\ failed_stores' = [failed_stores EXCEPT ![r] = @ \cup {store_id}]
                    /\ Raise(r, "store")
                    /\ wpc' = [wpc EXCEPT ![r] = "except"]
                    /\ UNCHANGED report_data
    /\ UNCHANGED <<calcVars, windowVars, writes, report_status, store_status, csv_files, tpc,
                 session, store_ids>>
    /\ last_poll' = <<>>

\* generate_report_async, lines 54-74: one pass of the loop over store_ids;
\* _calculate_store_metrics returns a row or raises, and a raise is caught here
CalculateStoreMetrics(r) ==
    /\ wpc[r] = "stores"
    /\ Len(report_data[r]) < Len(store_ids[r])
    /\ LET store_id == store_ids[r][Len(report_data[r]) + 1]
       IN  \E ok \in BOOLEAN :
               IF ok
               THEN /\ report_data' = [report_data EXCEPT
                                          ![r] = Append(@, StoreMetrics(store_id))]
                    /\ UNCHANGED failed_stores
               ELSE /\ report_data' = [report_data EXCEPT ![r] = Append(@, ZeroRow(store_id))]
                    /\ failed_stores' = [failed_stores EXCEPT ![r] = @ \cup {store_id}]
    /\ UNCHANGED <<calcVars, windowVars, writes, report_status, store_status, csv_files, tpc,
                 wpc, session, store_ids, raised>>
    /\ last_poll' = <<>>

\* export_to_csv that returns the path without having written the file
ExportToCsv_unwritten(r) ==
    /\ wpc[r] = "stores"
    /\ Len(report_data[r]) = Len(store_ids[r])
    /\ wpc' = [wpc EXCEPT ![r] = "csv_written"]
    /\ UNCHANGED <<calcVars, windowVars, writes, report_status, store_status, csv_files, tpc,
                 session, store_ids, report_data, raised, failed_stores>>
    /\ last_poll' = <<>>

\* generate_report_async, line 76, and export_to_csv: validation, formatting,
\* sorting and the write of report_<id>.csv; a failed validation or write raises
ExportToCsv(r) ==
    /\ wpc[r] = "stores"
    /\ Len(report_data[r]) = Len(store_ids[r])
    /\ \E ok \in BOOLEAN :
           IF ok /\ validate_report_data(report_data[r])
           THEN /\ csv_files' = csv_files @@ (r :> SortByStoreId(report_data[r]))
                /\ wpc' = [wpc EXCEPT ![r] = "csv_written"]
                /\ UNCHANGED raised
           ELSE /\ Raise(r, "export")
                /\ wpc' = [wpc EXCEPT ![r] = "except"]
                /\ UNCHANGED csv_files
    /\ UNCHANGED <<calcVars, windowVars, writes, report_status, store_status, tpc, session,
                 store_ids, report_data, failed_stores>>
    /\ last_poll' = <<>>

\* The commit of Complete followed by a raise inside the try block
CommitComplete_then_raise(r) ==
    /\ wpc[r] = "csv_written"
    /\ report_status' = [report_status EXCEPT ![r] = [session[r] EXCEPT
                                                         !.status = "Complete",
                                                         !.completed_at = "utcnow",
                                                         !.file_path = CsvPath(r)]]
    /\ session' = [session EXCEPT ![r] = report_status'[r]]
    /\ Raise(r, "after_commit")
    /\ wpc' = [wpc EXCEPT ![r] = "except"]
    /\ writes' = [writes EXCEPT ![r] = @ + 1]
    /\ UNCHANGED <<calcVars, windowVars, store_status, csv_files, tpc, store_ids, report_data,
                 failed_stores>>
    /\ last_poll' = <<>>

\* generate_report_async, lines 79-84: the loaded object is set to Complete and
\* committed; when the commit raises nothing is written and the object keeps
\* the pending values
CommitComplete(r) ==
    /\ wpc[r] = "csv_written"
    /\ LET pending == [session[r] EXCEPT !.status = "Complete",
                                         !.completed_at = "utcnow",
                                         !.file_path = CsvPath(r)]
       IN  \E ok \in BOOLEAN :
               IF ok
               THEN /\ report_status' = [report_status EXCEPT ![r] = pending]
                    /\ writes' = [writes EXCEPT ![r] = @ + 1]
                    /\ wpc' = [wpc EXCEPT ![r] = "done"]
                    /\ session' = Close(session, r)
                    /\ store_ids' = [store_ids EXCEPT ![r] = <<>>]
                    /\ report_data' = [report_data EXCEPT ![r] = <<>>]
                    /\ failed_stores' = [failed_stores EXCEPT ![r] = {}]
                    /\ UNCHANGED raised
               ELSE /\ Raise(r, "commit")
                    /\ wpc' = [wpc EXCEPT ![r] = "except"]
                    /\ session' = [session EXCEPT ![r] = pending]
                    /\ UNCHANGED <<report_status, writes, store_ids, report_data,
                                   failed_stores>>
    /\ UNCHANGED <<calcVars, windowVars, store_status, csv_files, tpc>>
    /\ last_poll' = <<>>

\* The except block without the report_id filter: every Running record is set to Failed
HandleException_every_running(r) ==
    /\ wpc[r] = "except"
    /\ wpc' = [wpc EXCEPT ![r] = "done"]
    /\ report_status' = [q \in DOMAIN report_status |->
                            IF report_status[q].status = "Running"
                            THEN [report_status[q] EXCEPT !.status = "Failed"]
                            ELSE report_status[q]]
    /\ writes' = [q \in ReportIds |->
                     IF q \in DOMAIN report_status /\ report_status[q].status = "Running"
                     THEN writes[q] + 1 ELSE writes[q]]
    /\ session' = Close(session, r)
    /\ store_ids' = [store_ids EXCEPT ![r] = <<>>]
    /\ report_data' = [report_data EXCEPT ![r] = <<>>]
    /\ failed_stores' = [failed_stores EXCEPT ![r] = {}]
    /\ UNCHANGED <<calcVars, windowVars, store_status, csv_files, tpc, raised>>
    /\ last_poll' = <<>>

\* generate_report_async, lines 86-93: the except block. The query returns the
\* object of the worker's session (with whatever it has pending) or loads the
\* row afresh; the row is set to Failed and committed. The query or the commit
\* may raise (nothing in the function rolls back a session whose commit
\* failed), and then nothing is written. The exception goes on to
\* _generate_report_background, which logs it and closes the session; the
\* locals of generate_report_async are gone.
HandleException(r) ==
    /\ wpc[r] = "except"
    /\ wpc' = [wpc EXCEPT ![r] = "done"]
    /\ \E outcome \in {"raises", "session_object", "reloaded"} :
           IF outcome # "raises" /\ r \in DOMAIN report_status
           THEN LET loaded == IF outcome = "session_object" /\ r \in DOMAIN session
                              THEN session[r]
                              ELSE report_status[r]
                IN  /\ report_status' = [report_status EXCEPT
                                            ![r] = [loaded EXCEPT !.status = "Failed"]]
                    /\ writes' = [writes EXCEPT ![r] = @ + 1]
           ELSE UNCHANGED <<report_status, writes>>
    /\ session' = Close(session, r)
    /\ store_ids' = [store_ids EXCEPT ![r] = <<>>]
    /\ report_data' = [report_data EXCEPT ![r] = <<>>]
    /\ failed_stores' = [failed_stores EXCEPT ![r] = {}]
    /\ UNCHANGED <<calcVars, windowVars, store_status, csv_files, tpc, raised>>
    /\ last_poll' = <<>>

\* get_report_status answering Failed for a record it does not find
get_report_status_absent_as_failed(report_id, db_ok) ==
    IF ~db_ok
    THEN [error |-> "Internal server error", status |-> None, file_path |-> None,
          completed_at |-> None, created_at |-> None]
    ELSE IF report_id \notin DOMAIN report_status
    THEN [error |-> None, status |-> "Failed", file_path |-> None,
          completed_at |-> None, created_at |-> None]
    ELSE IF report_status[report_id].status = "Complete"
    THEN [error |-> None, status |-> "Complete",
          file_path |-> report_status[report_id].file_path,
          completed_at |-> report_status[report_id].completed_at, created_at |-> None]
    ELSE [error |-> None, status |-> report_status[report_id].status, file_path |-> None,
          completed_at |-> None, created_at |-> report_status[report_id].created_at]

\* ReportService.get_report_status; db_ok is whether the query went through
get_report_status(report_id, db_ok) ==
    IF ~db_ok
    THEN [error |-> "Internal server error", status |-> None, file_path |-> None,
          completed_at |-> None, created_at |-> None]
    ELSE IF report_id \notin DOMAIN report_status
    THEN [error |-> "Report not found", status |-> None, file_path |-> None,
          completed_at |-> None, created_at |-> None]
    ELSE IF report_status[report_id].status = "Complete"
    THEN [error |-> None, status |-> "Complete",
          file_path |-> report_status[report_id].file_path,
          completed_at |-> report_status[report_id].completed_at, created_at |-> None]
    ELSE [error |-> None, status |-> report_status[report_id].status, file_path |-> None,
          completed_at |-> None, created_at |-> report_status[report_id].created_at]

\* os.path.exists(file_path)
FileExists(file_path) == \E r \in DOMAIN csv_files : CsvPath(r) = file_path

\* main.get_report: the HTTP status code answered for a get_report_status result
get_report(result) ==
    IF result.error # None
    THEN IF result.error = "Report not found" THEN 404 ELSE 500
    ELSE IF result.status = "Complete"
    THEN IF FileExists(result.file_path) THEN 200 ELSE 500
    ELSE 200

\* A get_report that creates a Running record for an id it does not find
GetReport_get_or_create(report_id) ==
    /\ \E db_ok \in BOOLEAN :
           LET result == get_report_status(report_id, db_ok)
           IN  /\ last_poll' = <<[report_id |-> report_id, db_ok |-> db_ok,
                                  result |-> result, http |-> get_report(result)]>>
               /\ report_status' =
                      IF db_ok /\ report_id \in ReportIds \ DOMAIN report_status
                      THEN report_status @@ (report_id :> NewReportStatus(report_id))
                      ELSE report_status
    /\ UNCHANGED <<calcVars, windowVars, writes, store_status, csv_files, tpc,
                 wpc, session, store_ids, report_data, raised, failed_stores>>

\* GET /get_report/{report_id}: one query and the answer. Every other step
\* clears last_poll, so the answer always stands next to the state it was
\* computed from.
GetReport(report_id) ==
    /\ \E db_ok \in BOOLEAN :
           LET result == get_report_status(report_id, db_ok)
           IN  last_poll' = <<[report_id |-> report_id, db_ok |-> db_ok,
                               result |-> result, http |-> get_report(result)]>>
    /\ UNCHANGED <<calcVars, windowVars, writes, report_status, store_status, csv_files, tpc,
                 wpc, session, store_ids, report_data, raised, failed_stores>>

Next ==
    \/ \E r \in ReportIds :
           \/ TriggerCommit(r)
           \/ TriggerStart(r)
           \/ QueryReportStatus(r)
           \/ GetMaxTimestamp(r)
           \/ GetAllStoreIds(r)
           \/ CalculateStoreMetrics(r)
           \/ ExportToCsv(r)
           \/ CommitComplete(r)
           \/ HandleException(r)
    \/ \E report_id \in ReportIds \cup {UnknownId} : GetReport(report_id)

Spec == Init /\ [][Next]_vars

\* The steps of the background thread of job r
Worker(r) ==
    \/ QueryReportStatus(r)
    \/ GetMaxTimestamp(r)
    \/ GetAllStoreIds(r)
    \/ CalculateStoreMetrics(r)
    \/ ExportToCsv(r)
    \/ CommitComplete(r)
    \/ HandleException(r)

\* Spec with the scheduling the threads get: a started worker thread keeps being
\* run until it ends, and a trigger_report call that committed goes on to start
\* its thread. Polls and new triggers may or may not come.
SpecFair ==
    /\ Spec
    /\ \A r \in ReportIds : WF_vars(TriggerStart(r)) /\ WF_vars(Worker(r))

-----------------------------------------------------------------------------
(* The observation store read by one job: DataProcessor.get_max_timestamp,  *)
(* get_all_store_ids, get_store_status_in_range, and import_csv_data        *)
(* Timestamps are whole hours.                                              *)

\* The most rows one store_status CSV holds
MaxRows == 2

\* datetime.utcnow() at the moment get_max_timestamp finds the table empty, in hours
WallClock == 400

\* timestamp_utc values of the rows: around the bounds of the windows that end at 170
TimestampHours == {0, 2, 146, 169, 170, 171}

\* The rows of a store_status CSV file
StoreStatusRows == [store_id : {"s1", "s2"}, timestamp_utc : TimestampHours]

\* The row sets import_csv_data can add
StoreStatusFiles == {rows \in SUBSET StoreStatusRows : Cardinality(rows) <= MaxRows}

\* timedelta(hours=1), timedelta(days=1), timedelta(weeks=1), in hours
WindowHours == <<1, 24, 168>>

\* query(StoreStatus.timestamp_utc).order_by(timestamp_utc.desc()).first(), and the
\* fallback for an empty table
get_max_timestamp(table) ==
    IF table # {}
    THEN LET first == CHOOSE row \in table :
                          \A other \in table : other.timestamp_utc <= row.timestamp_utc
         IN  first.timestamp_utc
    ELSE WallClock

\* query(StoreStatus.store_id).distinct().all(): the distinct ids, which the database
\* may return in any order
get_all_store_ids(table) ==
    LET ids == {row.store_id : row \in table}
    IN  {order \in UNION {[1..n -> ids] : n \in 0..Cardinality(ids)} :
            /\ Len(order) = Cardinality(ids)
            /\ \A id \in ids : \E k \in 1..Len(order) : order[k] = id}

\* The rows of `rows` by ascending timestamp_utc
RECURSIVE OrderByTimestamp(_)
OrderByTimestamp(rows) ==
    IF rows = {} THEN <<>>
    ELSE LET first == CHOOSE row \in rows :
                          \A other \in rows : row.timestamp_utc <= other.timestamp_utc
         IN  <<first>> \o OrderByTimestamp(rows \ {first})

\* query(StoreStatus).filter(store_id == store_id, timestamp_utc >= start_time,
\* timestamp_utc <= end_time).order_by(timestamp_utc).all()
get_store_status_in_range(table, store_id, st, en) ==
    OrderByTimestamp({row \in table : /\ row.store_id = store_id
                                      /\ row.timestamp_utc >= st
                                      /\ row.timestamp_utc <= en})

\* A job is about to read the store; the store holds what an earlier import left
InitWindow ==
    /\ JobsIdle
    /\ business_hours = NoHours
    /\ start_time = Instant(0)
    /\ end_time = Instant(0)
    /\ op = "none"
    /\ arg = <<>>
    /\ out = <<>>
    /\ observations \in StoreStatusFiles
    /\ max_timestamp = <<>>
    /\ job_store_ids = <<>>
    /\ window_pc = [step |-> "max_timestamp", store |-> 0, window |-> 0]
    /\ last_fetch = <<>>
    /\ import_pc = "idle"

\* generate_report_async, line 39: current_time = self.processor.get_max_timestamp()
ReadMaxTimestamp ==
    /\ window_pc.step = "max_timestamp"
    /\ max_timestamp' = <<get_max_timestamp(observations)>>
    /\ window_pc' = [window_pc EXCEPT !.step = "store_ids"]
    /\ UNCHANGED <<calcVars, jobVars, observations, job_store_ids, last_fetch, import_pc>>

\* generate_report_async, line 48: store_ids = self.processor.get_all_store_ids()
ReadStoreIds ==
    /\ window_pc.step = "store_ids"
    /\ \E order \in get_all_store_ids(observations) :
          /\ job_store_ids' = order
          /\ window_pc' = IF order = <<>>
                          THEN [step |-> "export", store |-> 0, window |-> 0]
                          ELSE [step |-> "stores", store |-> 1, window |-> 1]
    /\ UNCHANGED <<calcVars, jobVars, observations, max_timestamp, last_fetch, import_pc>>

\* _calculate_period_metrics, line 133, as _calculate_store_metrics calls it for the
\* hour, the day and the week of one store with the bounds generate_report_async
\* computed from current_time (lines 43-45)
FetchWindow ==
    /\ window_pc.step = "stores"
    /\ LET store_id     == job_store_ids[window_pc.store]
           current_time == max_timestamp[1]
           window_start == current_time - WindowHours[window_pc.window]
       IN  last_fetch' = <<[store_id   |-> store_id,
                            window     |-> window_pc.window,
                            start_time |-> window_start,
                            end_time   |-> current_time,
                            rows       |-> get_store_status_in_range(
                                               observations, store_id,
                                               window_start, current_time)]>>
    /\ window_pc' = IF window_pc.window < Len(WindowHours)
                    THEN [window_pc EXCEPT !.window = @ + 1]
                    ELSE IF window_pc.store < Len(job_store_ids)
                         THEN [window_pc EXCEPT !.store = @ + 1, !.window = 1]
                         ELSE [step |-> "export", store |-> 0, window |-> 0]
    /\ UNCHANGED <<calcVars, jobVars, observations, max_timestamp, job_store_ids, import_pc>>

\* import_csv_data, lines 24-27: the three tables are emptied and the delete committed
ImportClear ==
    /\ import_pc = "idle"
    /\ observations' = {}
    /\ import_pc' = "cleared"
    /\ UNCHANGED <<calcVars, jobVars, max_timestamp, job_store_ids, window_pc, last_fetch>>

\* import_csv_data, lines 29-74: the rows of the CSV are added and committed
ImportCommit ==
    /\ import_pc = "cleared"
    /\ \E rows \in StoreStatusFiles : observations' = observations \cup rows
    /\ import_pc' = "idle"
    /\ UNCHANGED <<calcVars, jobVars, max_timestamp, job_store_ids, window_pc, last_fetch>>

NextWindow ==
    \/ ReadMaxTimestamp
    \/ ReadStoreIds
    \/ FetchWindow
    \/ ImportClear
    \/ ImportCommit

SpecWindow == InitWindow /\ [][NextWindow]_vars

-----------------------------------------------------------------------------
(* The per-store lookups: DataProcessor.get_store_timezone and              *)
(* get_business_hours, BusinessHoursCalculator.parse_time_string            *)
(* A time string is the sequence of its characters.                         *)

\* The most business_hours rows one store has
MaxHoursRows == 2

Digits == <<"0", "1", "2", "3", "4", "5", "6", "7", "8", "9">>

IsDigit(c) == \E k \in 1..Len(Digits) : Digits[k] = c

DigitValue(c) == (CHOOSE k \in 1..Len(Digits) : Digits[k] = c) - 1

\* The fields of a string between its ":" characters
RECURSIVE Fields(_, _)
Fields(chars, field) ==
    IF chars = <<>> THEN <<field>>
    ELSE IF Head(chars) = ":" THEN <<field>> \o Fields(Tail(chars), <<>>)
    ELSE Fields(Tail(chars), Append(field, Head(chars)))

\* A strptime directive %H, %M or %S: one or two digits, <<>> when the field is not
\* a number
Number(field) ==
    IF Len(field) \in 1..2 /\ \A k \in 1..Len(field) : IsDigit(field[k])
    THEN IF Len(field) = 1 THEN <<DigitValue(field[1])>>
         ELSE <<10 * DigitValue(field[1]) + DigitValue(field[2])>>
    ELSE <<>>

\* datetime.strptime(time_str, format).time() for the formats "%H:%M:%S" (n = 3) and
\* "%H:%M" (n = 2): <<time>>, or <<>> for ValueError
strptime(time_str, n) ==
    LET fields  == Fields(time_str, <<>>)
        numbers == [k \in 1..Len(fields) |-> Number(fields[k])]
    IN  IF /\ Len(fields) = n
           /\ \A k \in 1..n : numbers[k] # <<>>
           /\ numbers[1][1] <= 23
           /\ \A k \in 2..n : numbers[k][1] <= 59
        THEN <<Time(numbers[1][1], numbers[2][1], IF n = 3 THEN numbers[3][1] ELSE 0)>>
        ELSE <<>>

\* parse_time_string: <<time>>, or <<>> when it raises ValueError
parse_time_string(time_str) ==
    IF strptime(time_str, 3) # <<>> THEN strptime(time_str, 3) ELSE strptime(time_str, 2)

\* get_store_timezone with a lookup that never falls back to the default zone
get_store_timezone_as_stored(store_tz) ==
    IF store_tz # <<>> THEN store_tz[1].timezone_str ELSE "America/Chicago"

\* get_store_timezone, given the result of query(StoreTimezone)...first(): <<>> for
\* None, <<row>> for a row
get_store_timezone(store_tz) ==
    LET timezone_str == IF store_tz # <<>> THEN store_tz[1].timezone_str
                        ELSE "America/Chicago"
    IN  validate_timezone(timezone_str)

\* The loop of get_business_hours with a handler that gives the weekday of a
\* malformed row the interval (00:00:00, 23:59:59) instead of skipping the row
RECURSIVE HoursLoop_default_interval(_, _, _)
HoursLoop_default_interval(hours, i, bh) ==
    IF i > Len(hours) THEN bh
    ELSE LET hour      == hours[i]
             st        == parse_time_string(hour.start_time_local)
             en        == parse_time_string(hour.end_time_local)
             interval  == IF st # <<>> /\ en # <<>> THEN <<st[1], en[1]>>
                          ELSE <<Time(0, 0, 0), Time(23, 59, 59)>>
         IN  HoursLoop_default_interval(hours, i + 1,
                 [d \in DOMAIN bh \cup {hour.day_of_week} |->
                      IF d = hour.day_of_week THEN interval ELSE bh[d]])

\* The loop of get_business_hours over the rows from row i on
RECURSIVE HoursLoop(_, _, _)
HoursLoop(hours, i, bh) ==
    IF i > Len(hours) THEN bh
    ELSE LET hour      == hours[i]
             st        == parse_time_string(hour.start_time_local)
             en        == parse_time_string(hour.end_time_local)
         IN  IF st # <<>> /\ en # <<>>
             THEN HoursLoop(hours, i + 1,
                            [d \in DOMAIN bh \cup {hour.day_of_week} |->
                                 IF d = hour.day_of_week THEN <<st[1], en[1]>> ELSE bh[d]])
             ELSE HoursLoop(hours, i + 1, bh)

\* get_business_hours, given the result of query(BusinessHours)...all()
get_business_hours(hours) ==
    IF hours = <<>> THEN [i \in 0..6 |-> <<Time(0, 0, 0), Time(23, 59, 59)>>]
    ELSE HoursLoop(hours, 1, NoHours)

\* StoreTimezone.timezone_str values: two zones of pytz.all_timezones, the name the
\* test uses as invalid, and the empty string
TimezoneStrs == {"America/Chicago", "UTC", "Invalid/Timezone", ""}

\* Results of query(StoreTimezone).filter(store_id == ...).first()
StoreTimezoneRows == {<<>>} \cup {<<[timezone_str |-> z]>> : z \in TimezoneStrs}

\* BusinessHours.start_time_local values: "09:00:00", "6:00" and the malformed
\* "25:00:00"
StartTimeStrings ==
    {<<"0", "9", ":", "0", "0", ":", "0", "0">>,
     <<"6", ":", "0", "0">>,
     <<"2", "5", ":", "0", "0", ":", "0", "0">>}

\* BusinessHours.end_time_local values: "17:00", "22:00:00" and the malformed
\* "closed"
EndTimeStrings ==
    {<<"1", "7", ":", "0", "0">>,
     <<"2", "2", ":", "0", "0", ":", "0", "0">>,
     <<"c", "l", "o", "s", "e", "d">>}

\* BusinessHours rows of one store, for Monday, Tuesday and Sunday
BusinessHoursRows ==
    [day_of_week : {0, 1, 6}, start_time_local : StartTimeStrings,
     end_time_local : EndTimeStrings]

\* Results of query(BusinessHours).filter(store_id == ...).all()
BusinessHoursLists == UNION {[1..n -> BusinessHoursRows] : n \in 0..MaxHoursRows}

InitLookup ==
    /\ JobsIdle
    /\ WindowsIdle
    /\ business_hours = NoHours
    /\ start_time = Instant(0)
    /\ end_time = Instant(0)
    /\ op = "none"
    /\ arg = <<>>
    /\ out = <<>>

\* validate_timezone applied to a string
ValidateTimezone ==
    /\ op = "none"
    /\ \E z \in TimezoneStrs :
          /\ arg' = <<z>>
          /\ out' = validate_timezone(z)
    /\ op' = "validate_timezone"
    /\ UNCHANGED <<business_hours, start_time, end_time, jobVars, windowVars>>

\* _calculate_store_metrics, line 101
GetStoreTimezone ==
    /\ op = "none"
    /\ \E store_tz \in StoreTimezoneRows :
          /\ arg' = store_tz
          /\ out' = get_store_timezone(store_tz)
    /\ op' = "get_store_timezone"
    /\ UNCHANGED <<business_hours, start_time, end_time, jobVars, windowVars>>

\* _calculate_store_metrics, line 102
GetBusinessHours ==
    /\ op = "none"
    /\ \E hours \in BusinessHoursLists :
          /\ arg' = hours
          /\ out' = get_business_hours(hours)
    /\ op' = "get_business_hours"
    /\ UNCHANGED <<business_hours, start_time, end_time, jobVars, windowVars>>

NextLookup ==
    \/ ValidateTimezone
    \/ GetStoreTimezone
    \/ GetBusinessHours

SpecLookup == InitLookup /\ [][NextLookup]_vars

-----------------------------------------------------------------------------
(* Claims about the calendar functions (checked under SpecCalendar)        *)

\* C1: for every window, the uptime and downtime that _calculate_period_metrics
\* returns add up to the business seconds of the window as
\* _calculate_business_seconds_between computes them.
C1_UptimePlusDowntime ==
    op = "_calculate_period_metrics" =>
        out.uptime + out.downtime
            = calculate_business_seconds_between(start_time, end_time, business_hours)

\* C2: the day-by-day _calculate_business_seconds_between returns what
\* calculate_total_business_seconds_precise (the summed intervals of
\* get_business_hours_intervals) returns, for every span and calendar.
C2_DualPathAgreement ==
    op = "_calculate_business_seconds_between" =>
        out = calculate_total_business_seconds_precise(start_time, end_time, business_hours)

\* C3: for a span that is one whole local day, an instant of that day is within
\* business hours exactly when it lies inside one of the intervals
\* get_business_hours_intervals returns for the day.
C3_IsOpenMatchesIntervals ==
    (/\ op = "is_within_business_hours_enhanced"
     /\ start_time = replace(arg, 0, 0, 0, 0)
     /\ end_time = replace(arg, 23, 59, 59, 0)) =>
        LET intervals == get_business_hours_intervals(start_time, end_time, business_hours)
        IN  out <=> \E k \in 1..Len(intervals) :
                        DtLE(intervals[k][1], arg) /\ DtLE(arg, intervals[k][2])

SecondOfDay(t) == t.hour * 3600 + t.minute * 60 + t.second

\* The rule of C9 on seconds of the day: (a) the weekday's interval does not wrap
\* and holds the time; (b) it wraps and the time is at or after its open or at or
\* before its close; (c) the previous weekday's interval wraps and the time is
\* at or before its close
C9_Rule(t, bh) ==
    LET wd == t.day % 7
        pd == (wd + 6) % 7
    IN  \/ /\ wd \in DOMAIN bh
           /\ SecondOfDay(bh[wd][1]) <= SecondOfDay(bh[wd][2])
           /\ SecondOfDay(bh[wd][1]) <= t.sec
           /\ t.sec <= SecondOfDay(bh[wd][2])
        \/ /\ wd \in DOMAIN bh
           /\ SecondOfDay(bh[wd][1]) > SecondOfDay(bh[wd][2])
           /\ (t.sec >= SecondOfDay(bh[wd][1]) \/ t.sec <= SecondOfDay(bh[wd][2]))
        \/ /\ pd \in DOMAIN bh
           /\ SecondOfDay(bh[pd][1]) > SecondOfDay(bh[pd][2])
           /\ t.sec <= SecondOfDay(bh[pd][2])

\* Scenario A: Mon-Fri 09:00-17:00; Monday 14:30 open, Monday 19:30 closed,
\* Saturday 14:30 closed
C9_ScenarioA ==
    /\ is_within_business_hours_enhanced(DateTime(0, 14, 30, 0), MonFri9to5)
    /\ ~is_within_business_hours_enhanced(DateTime(0, 19, 30, 0), MonFri9to5)
    /\ ~is_within_business_hours_enhanced(DateTime(5, 14, 30, 0), MonFri9to5)

\* Scenario B: Mon 22:00-06:00; Monday 23:30 open, Tuesday 03:30 open, Tuesday
\* 08:30 closed
C9_ScenarioB ==
    /\ is_within_business_hours_enhanced(DateTime(0, 23, 30, 0), MonOvernight)
    /\ is_within_business_hours_enhanced(DateTime(1, 3, 30, 0), MonOvernight)
    /\ ~is_within_business_hours_enhanced(DateTime(1, 8, 30, 0), MonOvernight)

\* C9: is_within_business_hours_enhanced answers true exactly when rule (a), (b)
\* or (c) holds of the instant, and answers the instants of Scenarios A and B as
\* the specification lists them.
C9_IsOpenRule ==
    /\ op = "is_within_business_hours_enhanced" => (out <=> C9_Rule(arg, business_hours))
    /\ C9_ScenarioA
    /\ C9_ScenarioB

\* An instant found open only through the previous weekday's overnight interval
C9_Witness ==
    /\ op = "is_within_business_hours_enhanced"
    /\ out = TRUE
    /\ weekday(arg) \notin DOMAIN business_hours
    /\ business_hours = MonOvernight

\* C10: both business-seconds functions return 0 whenever the span's start is at
\* or after its end, and an integer >= 0 otherwise.
C10_Boundary ==
    op \in {"_calculate_business_seconds_between",
            "calculate_total_business_seconds_precise"} =>
        /\ out \in Nat
        /\ DtLE(end_time, start_time) => out = 0

\* A reversed span inside open hours of the 24/7 calendar, answered 0
C10_Witness ==
    /\ op = "_calculate_business_seconds_between"
    /\ DtLT(end_time, start_time)
    /\ business_hours = Default247
    /\ out = 0

\* The seconds that [s, e] shares with [open, close] on one date, on seconds of the day
C11_Intersection(s, e, open, close) ==
    LET lo == IF s.sec > SecondOfDay(open) THEN s.sec ELSE SecondOfDay(open)
        hi == IF e.sec < SecondOfDay(close) THEN e.sec ELSE SecondOfDay(close)
    IN  IF hi > lo THEN hi - lo ELSE 0

\* Scenario C: Mon 09:00-17:00, span Monday 08:00-18:00: 28800 seconds, on both paths
C11_ScenarioC ==
    LET bh == [d \in {0} |-> <<Time(9, 0, 0), Time(17, 0, 0)>>]
    IN  /\ calculate_total_business_seconds_precise(DateTime(0, 8, 0, 0),
                                                    DateTime(0, 18, 0, 0), bh) = 28800
        /\ calculate_business_seconds_between(DateTime(0, 8, 0, 0),
                                              DateTime(0, 18, 0, 0), bh) = 28800

\* C11: for a span s < e on one date whose weekday has a non-wrapping entry
\* [open, close], both calculate_total_business_seconds_precise and
\* _calculate_business_seconds_between return the length in seconds of the
\* intersection of the span with [open, close] (0 when they do not meet); Scenario
\* C gives 28800.
C11_SingleDayIntersection ==
    /\ (/\ op \in {"_calculate_business_seconds_between",
                   "calculate_total_business_seconds_precise"}
        /\ DtLT(start_time, end_time)
        /\ start_time.day = end_time.day
        /\ weekday(start_time) \in DOMAIN business_hours
        /\ TimeLE(business_hours[weekday(start_time)][1],
                  business_hours[weekday(start_time)][2]))
           => out = C11_Intersection(start_time, end_time,
                                     business_hours[weekday(start_time)][1],
                                     business_hours[weekday(start_time)][2])
    /\ C11_ScenarioC

\* A Monday span that starts before 09:00 and ends after 17:00, cut to the 8 hours
C11_Witness ==
    /\ op = "calculate_total_business_seconds_precise"
    /\ business_hours = MonFri9to5
    /\ start_time.day = 0 /\ end_time.day = 0
    /\ start_time.sec < 9 * 3600 /\ end_time.sec > 17 * 3600
    /\ out = 28800

\* Scenario D: no observation in a 1-hour window of open time (Monday 10:00-11:00
\* local, Mon-Fri 09:00-17:00): uptime 0, downtime 3600
C12_ScenarioD ==
    \A tz \in Timezones :
        calculate_period_metrics(<<>>, ToUtc(DateTime(0, 10, 0, 0), tz),
                                 ToUtc(DateTime(0, 11, 0, 0), tz), tz, MonFri9to5)
            = [uptime |-> 0, downtime |-> 3600]

Surviving == SortByTimestamp(LocalStatusData(arg.status_data, arg.timezone_str, business_hours))

\* [s, e] lies inside one occurrence of a calendar interval: the interval of s's
\* date, or the overnight interval that began the date before
SpanWithinHours(s, e, bh) ==
    \E d \in {s.day - 1, s.day} :
        /\ d % 7 \in DOMAIN bh
        /\ LET open == [day |-> d, sec |-> SecondOfDay(bh[d % 7][1]), us |-> 0]
               wraps == SecondOfDay(bh[d % 7][2]) < SecondOfDay(bh[d % 7][1])
               close == [day |-> IF wraps THEN d + 1 ELSE d,
                         sec |-> SecondOfDay(bh[d % 7][2]), us |-> 0]
           IN  DtLE(open, s) /\ DtLE(e, close)

\* C13: with exactly one surviving observation (t, s) in a span that lies
\* entirely within business hours, the whole span is attributed to s: status
\* 'active' gives uptime = businessSecondsBetween(localStart, localEnd) and
\* downtime 0, any other status gives uptime 0 and downtime that value.
C13_SingleObservation ==
    (/\ op = "_calculate_period_metrics"
     /\ Len(Surviving) = 1
     /\ DtLT(start_time, end_time)
     /\ SpanWithinHours(start_time, end_time, business_hours)) =>
        LET whole == calculate_business_seconds_between(start_time, end_time, business_hours)
        IN  IF Surviving[1].status = "active"
            THEN out = [uptime |-> whole, downtime |-> 0]
            ELSE out = [uptime |-> 0, downtime |-> whole]

\* The gaps of a span cut at the observations of data (at least one): the
\* span's start to the first, each one to the next, the last to the span's end;
\* each with the status it is attributed to under forward fill
C14_Gaps(data, local_start, local_end) ==
    [k \in 1..(Len(data) + 1) |->
        [from |-> IF k = 1 THEN local_start ELSE data[k - 1].timestamp,
         to |-> IF k = Len(data) + 1 THEN local_end ELSE data[k].timestamp,
         status |-> IF k = 1 THEN data[1].status ELSE data[k - 1].status]]

\* The business seconds of the first k gaps attributed to status
RECURSIVE C14_Sum(_, _, _, _)
C14_Sum(gaps, k, active, bh) ==
    IF k = 0 THEN 0
    ELSE C14_Sum(gaps, k - 1, active, bh)
         + (IF (gaps[k].status = "active") = active
            THEN calculate_business_seconds_between(gaps[k].from, gaps[k].to, bh)
            ELSE 0)

C15_IntervalsOrdered ==
    op = "get_business_hours_intervals" =>
        /\ \A k \in 1..Len(out) :
               /\ DtLT(out[k][1], out[k][2])
               /\ DtLE(start_time, out[k][1])
               /\ DtLE(out[k][2], end_time)
        /\ \A k \in 1..(Len(out) - 1) : DtLE(out[k][2], out[k + 1][1])


\* The observation's local time is open per the drawn calendar
OpenObservation(row, timezone_str) ==
    is_within_business_hours_enhanced(
        convert_utc_to_local_safe(row.timestamp_utc, timezone_str), business_hours)

\* The fetched rows without the out-of-hours observations
OpenOnly(fetched, timezone_str) ==
    SelectSeq(fetched, LAMBDA row : OpenObservation(row, timezone_str))

\* C24: observations whose local time is not open per the calendar have no effect:
\* for every window, the {uptime, downtime} that _calculate_period_metrics returns
\* for a fetched sequence is what it returns for the sequence without its
\* out-of-hours observations, whatever their number and state.
C24_OutOfHoursIgnored ==
    op = "_calculate_period_metrics" =>
        out = calculate_period_metrics(OpenOnly(arg.status_data, arg.timezone_str),
                                       ToUtc(start_time, arg.timezone_str),
                                       ToUtc(end_time, arg.timezone_str),
                                       arg.timezone_str, business_hours)

\* An out-of-hours observation and an open one were fetched, the out-of-hours one
\* with the other state, and the window has uptime
C24_Witness ==
    /\ op = "_calculate_period_metrics"
    /\ Len(arg.status_data) = 2
    /\ \E i, j \in 1..2 :
          /\ ~OpenObservation(arg.status_data[i], arg.timezone_str)
          /\ OpenObservation(arg.status_data[j], arg.timezone_str)
          /\ arg.status_data[i].status = "inactive"
          /\ arg.status_data[j].status = "active"
    /\ out.uptime > 0


\* C25: the day-by-day computation is additive: for every calendar and instants
\* a <= b <= c, _calculate_business_seconds_between(a, c) is the sum of
\* _calculate_business_seconds_between(a, b) and (b, c), also when b falls after
\* midnight inside the previous weekday's wrapping interval.
C25_Additive ==
    op = "_calculate_business_seconds_between" =>
        \A b \in Instants :
            (DtLE(start_time, b) /\ DtLE(b, end_time)) =>
                out = calculate_business_seconds_between(start_time, b, business_hours)
                      + calculate_business_seconds_between(b, end_time, business_hours)

\* The seconds from a to b
ElapsedSeconds(a, b) == (b.day - a.day) * 86400 + (b.sec - a.sec)

\* C26: no second is counted twice: for every calendar and span s < e,
\* _calculate_business_seconds_between(s, e) is at most e - s, also where a wrapping
\* interval's after-midnight part overlaps the next weekday's own interval; hence
\* uptime + downtime of a window never exceeds the window's length.
C26_AtMostElapsed ==
    /\ (op = "_calculate_business_seconds_between" /\ DtLT(start_time, end_time))
          => out <= ElapsedSeconds(start_time, end_time)
    /\ (op = "_calculate_period_metrics" /\ DtLT(start_time, end_time))
          => out.uptime + out.downtime <= ElapsedSeconds(start_time, end_time)

\* C27: for the 24/7 default calendar the business seconds of every whole-second
\* span s < e are the elapsed seconds e - s, so a full day has 86400, in both
\* _calculate_business_seconds_between and calculate_total_business_seconds_precise.
C27_DefaultCountsEverySecond ==
    (/\ business_hours = Default247
     /\ op \in {"_calculate_business_seconds_between",
                "calculate_total_business_seconds_precise"}
     /\ DtLT(start_time, end_time))
        => out = ElapsedSeconds(start_time, end_time)

-----------------------------------------------------------------------------
(* Claims about the job lifecycle, checked under Spec *)

\* C4: every job record is created with status Running; a record, once there,
\* stays; its status changes only from Running and only to Complete or Failed,
\* so a Complete or Failed record keeps its status through every later step of
\* any worker, of trigger_report and of get_report_status.
C4_Lifecycle ==
    [][\A r \in ReportIds :
           /\ (r \notin DOMAIN report_status /\ r \in DOMAIN report_status')
                  => report_status'[r].status = "Running"
           /\ r \in DOMAIN report_status
                  => /\ r \in DOMAIN report_status'
                     /\ report_status'[r].status # report_status[r].status
                            => /\ report_status[r].status = "Running"
                               /\ report_status'[r].status \in {"Complete", "Failed"}]_vars

\* One job ended Complete and another ended Failed
C4_Witness ==
    \E r, q \in ReportIds :
        /\ wpc[r] = "done" /\ wpc[q] = "done"
        /\ report_status[r].status = "Complete"
        /\ report_status[q].status = "Failed"

\* C5: a store whose metrics raised gets an all-zero row at its place in
\* report_data and the loop goes on with the next store (every row is the row of
\* the store at the same place of store_ids, and the write takes place only once
\* each store has a row); a store's failure is never a job-level failure: a job
\* is Failed only after a job-level step raised, and a worker that ended without
\* one left the job Complete, failed stores or not.
C5_StoreFailureIsolated ==
    \A r \in ReportIds :
        /\ Len(report_data[r]) <= Len(store_ids[r])
        /\ \A k \in 1..Len(report_data[r]) :
               /\ report_data[r][k].store_id = store_ids[r][k]
               /\ store_ids[r][k] \in failed_stores[r]
                      => report_data[r][k] = ZeroRow(store_ids[r][k])
        /\ \A store_id \in failed_stores[r] :
               \E k \in 1..Len(report_data[r]) : report_data[r][k] = ZeroRow(store_id)
        /\ wpc[r] = "csv_written"
               => /\ Len(report_data[r]) = Len(store_ids[r])
                  /\ csv_files[r] = SortByStoreId(report_data[r])
        /\ (r \in DOMAIN report_status /\ report_status[r].status = "Failed")
               => raised[r] # None
        /\ (wpc[r] = "done" /\ raised[r] = None)
               => report_status[r].status = "Complete"

\* A job whose two stores both failed is Complete, and its file holds the two
\* zero rows
C5_Witness ==
    \E r \in ReportIds :
        /\ wpc[r] = "done"
        /\ raised[r] = None
        /\ report_status[r].status = "Complete"
        /\ r \in DOMAIN csv_files
        /\ csv_files[r] = <<ZeroRow("s1"), ZeroRow("s2")>>

\* C6: when get_max_timestamp, get_all_store_ids, export_to_csv or the commit of
\* the Complete record raised, the worker leaves the job Failed, with no
\* file_path and no completed_at in its record.
C6_JobLevelFailure ==
    \A r \in ReportIds :
        (wpc[r] = "done" /\ raised[r] \in {"max_timestamp", "store_ids", "export", "commit"})
            => /\ report_status[r].status = "Failed"
               /\ report_status[r].file_path = None
               /\ report_status[r].completed_at = None

\* C7: with the query going through, get_report_status answers "Report not
\* found" (404 in get_report) for an id without a record and status "Failed" for
\* a Failed job; whatever the query does, an id with a record is never answered
\* as not found and an id without one is never answered as Failed.
C7_AbsentIsNotFailed ==
    last_poll # <<>> =>
        LET p == last_poll[1]
            found == p.report_id \in DOMAIN report_status
        IN  /\ (p.db_ok /\ ~found)
                   => /\ p.result.error = "Report not found"
                      /\ p.result.status = None
                      /\ p.http = 404
            /\ (p.db_ok /\ found /\ report_status[p.report_id].status = "Failed")
                   => /\ p.result.error = None
                      /\ p.result.status = "Failed"
                      /\ p.http = 200
            /\ found => (p.result.error # "Report not found" /\ p.http # 404)
            /\ ~found => p.result.status # "Failed"

\* An id without a record is answered 404 while a Failed job is in the table
C7_Witness ==
    /\ last_poll # <<>>
    /\ last_poll[1].report_id \notin DOMAIN report_status
    /\ last_poll[1].http = 404
    /\ \E r \in DOMAIN report_status : report_status[r].status = "Failed"

\* C8: the record is committed, Running, before the worker is started; once
\* trigger_report has returned or the worker exists the record is there, so a
\* get_report_status made after the return finds it and the worker never fails
\* on a missing record; trigger_report has returned as soon as the worker is
\* started, whatever the worker does afterwards.
C8_CommitBeforeStart ==
    \A r \in ReportIds :
        /\ (tpc[r] = "committed" /\ wpc[r] = "none")
               => (r \in DOMAIN report_status /\ report_status[r].status = "Running")
        /\ (tpc[r] = "returned" \/ wpc[r] # "none") => r \in DOMAIN report_status
        /\ wpc[r] # "none" => tpc[r] = "returned"
        /\ raised[r] # "not_found"
        /\ (last_poll # <<>> /\ last_poll[1].report_id = r /\ tpc[r] = "returned")
               => /\ last_poll[1].result.error # "Report not found"
                  /\ last_poll[1].db_ok => last_poll[1].result.error = None

\* trigger_report has returned, the worker has not made its first step, and a
\* poll of the id answers Running
C8_Witness ==
    \E r \in ReportIds :
        /\ tpc[r] = "returned"
        /\ wpc[r] = "start"
        /\ last_poll # <<>>
        /\ last_poll[1].report_id = r
        /\ last_poll[1].result.status = "Running"

\* C16: a record is Complete only once export_to_csv has written the job's file:
\* every Complete record carries the path of that file, which exists and holds a
\* row for each store, and a completion time; a Running record carries neither;
\* a poll answered Complete hands out the path of a written file and get_report
\* serves it.
C16_CompleteCarriesHandle ==
    /\ \A r \in DOMAIN report_status :
           /\ report_status[r].status = "Complete"
                  => /\ report_status[r].file_path = CsvPath(r)
                     /\ report_status[r].completed_at # None
                     /\ r \in DOMAIN csv_files
                     /\ Len(csv_files[r]) = Len(store_status)
           /\ report_status[r].status = "Running"
                  => /\ report_status[r].file_path = None
                     /\ report_status[r].completed_at = None
    /\ (last_poll # <<>> /\ last_poll[1].result.status = "Complete")
           => /\ last_poll[1].result.file_path = CsvPath(last_poll[1].report_id)
              /\ FileExists(last_poll[1].result.file_path)
              /\ last_poll[1].result.completed_at # None
              /\ last_poll[1].http = 200

\* A poll of a Complete job, served with its file
C16_Witness ==
    /\ last_poll # <<>>
    /\ last_poll[1].result.status = "Complete"
    /\ last_poll[1].result.file_path # None
    /\ last_poll[1].http = 200

\* C17: under fair scheduling, every job whose worker was started eventually has
\* a record that is Complete or Failed, whatever raises in generate_report_async.
C17_LeavesRunning ==
    \A r \in ReportIds :
        (wpc[r] # "none")
            ~> (r \in DOMAIN report_status
                /\ report_status[r].status \in {"Complete", "Failed"})

C19_ErrorRecorded ==
    \A r \in ReportIds :
        (wpc[r] = "done" /\ raised[r] # None)
            => (r \in DOMAIN report_status /\ report_status[r].status = "Failed")

\* The rest of C19: a step of one job's worker or trigger leaves every other
\* job's record, worker and trigger call as they were; a worker in its except
\* block ends (the exception stops in _generate_report_background); the next
\* trigger and every poll stay possible whatever has failed.
C19_Containment ==
    /\ [][\A r \in ReportIds :
              (wpc'[r] # wpc[r] \/ tpc'[r] # tpc[r])
                  => \A q \in ReportIds \ {r} :
                         /\ wpc'[q] = wpc[q] /\ tpc'[q] = tpc[q] /\ raised'[q] = raised[q]
                         /\ q \in DOMAIN report_status
                                => (q \in DOMAIN report_status'
                                    /\ report_status'[q] = report_status[q])]_vars
    /\ [](\A r \in ReportIds :
              /\ wpc[r] = "except" => ENABLED HandleException(r)
              /\ (tpc[r] = "idle" /\ \A q \in ReportIds : q < r => tpc[q] # "idle")
                     => ENABLED TriggerCommit(r)
              /\ ENABLED GetReport(r))


\* The worker of job r has called export_to_csv with its rows
HandedToSink(r) ==
    \/ wpc[r] = "csv_written"
    \/ wpc[r] = "except" /\ raised[r] = "export"

\* C28: when a job hands its rows to the result sink, the rows hold exactly one row
\* for each store id that get_all_store_ids returned and no row for any other id,
\* whether the store's computation succeeded or was replaced by the zero row.
C28_OneRowPerStore ==
    \A r \in ReportIds :
        HandedToSink(r) =>
            LET listed == {store_ids[r][k] : k \in 1..Len(store_ids[r])}
                rows   == report_data[r]
                in_row == {rows[k].store_id : k \in 1..Len(rows)}
            IN  \A id \in listed \cup in_row :
                    Cardinality({k \in 1..Len(rows) : rows[k].store_id = id})
                        = IF id \in listed THEN 1 ELSE 0

\* Rows were handed over for two stores, one computed and one zero-filled
C28_Witness ==
    \E r \in ReportIds :
        /\ wpc[r] = "csv_written"
        /\ Len(store_ids[r]) = 2
        /\ Cardinality(failed_stores[r]) = 1
        /\ \E k \in 1..2 : report_data[r][k] = ZeroRow(store_ids[r][k])
        /\ \E k \in 1..2 : report_data[r][k] = StoreMetrics(store_ids[r][k])


\* With no store id in the store no job is ever Complete, no file is written and no
\* record carries a file_path or completed_at
C29_EmptyStoreNeverComplete ==
    store_status = <<>> =>
        /\ csv_files = NoRows
        /\ \A r \in DOMAIN report_status :
              /\ report_status[r].status \in {"Running", "Failed"}
              /\ report_status[r].file_path = None
              /\ report_status[r].completed_at = None

\* C29: a job run while the store has no store ids ends in Failed, not in Complete
\* with an empty result: export_to_csv's validation rejects the empty rows before
\* any file is written, the job fails, and no file_path is recorded.
C29_EmptyStoreFailed ==
    \A r \in ReportIds :
        (store_status = <<>> /\ wpc[r] = "done" /\ raised[r] = "export") =>
            /\ r \notin DOMAIN csv_files
            /\ report_status[r].status = "Failed"
            /\ report_status[r].file_path = None

\* The validation rejected the empty rows of a job and the job is Failed
C29_FailedOnEmpty ==
    \E r \in ReportIds :
        /\ store_status = <<>>
        /\ wpc[r] = "done"
        /\ raised[r] = "export"
        /\ report_status[r].status = "Failed"


\* C30: polling is read-only: a get_report call creates no job record and changes
\* no status, created_at, completed_at or file_path of any job (nor any file),
\* in any interleaving with triggers and workers, and the status it answers is
\* the status the job's record has: Running, Complete or Failed.
C30_PollReadOnly ==
    [][last_poll' # <<>> =>
          /\ report_status' = report_status
          /\ csv_files' = csv_files
          /\ writes' = writes
          /\ LET poll == last_poll'[1]
             IN  poll.result.status # None =>
                    /\ poll.report_id \in DOMAIN report_status
                    /\ poll.result.status = report_status[poll.report_id].status
                    /\ poll.result.status \in {"Running", "Complete", "Failed"}]_vars

\* A poll answered Complete for one job while the worker of another job was in its
\* store loop or its except block
C30_Witness ==
    /\ last_poll # <<>>
    /\ last_poll[1].result.status = "Complete"
    /\ \E r \in ReportIds : r # last_poll[1].report_id /\ wpc[r] \in {"stores", "except"}

-----------------------------------------------------------------------------
(* Claims about the windows of one job, checked under SpecWindow *)

\* The value read as current_time is never read again, every fetch of every store is
\* bounded by [now - 1h, now], [now - 1d, now] or [now - 1w, now] for that one value,
\* and every row fetched belongs to the store and lies inside the bounds, whatever
\* import_csv_data did to the table in the meantime
C20_WindowsBounded ==
    /\ [][max_timestamp # <<>> => max_timestamp' = max_timestamp]_vars
    /\ [](last_fetch # <<>> =>
            LET f == last_fetch[1]
            IN  /\ f.end_time = max_timestamp[1]
                /\ f.start_time = max_timestamp[1] - WindowHours[f.window]
                /\ \A k \in 1..Len(f.rows) :
                      /\ f.rows[k].store_id = f.store_id
                      /\ f.rows[k].timestamp_utc >= f.start_time
                      /\ f.rows[k].timestamp_utc <= f.end_time)

\* C20: within one job `now` is read once, as the maximum observation timestamp in
\* the store: the step that reads current_time reads the largest timestamp_utc of a
\* row the store holds at that moment. That single value bounds the three windows
\* of every store, and no row later than it or earlier than the window start is
\* fetched for the window, even if rows are imported while the job runs.
C20_NowBoundsWindows ==
    /\ [][(max_timestamp = <<>> /\ max_timestamp' # <<>>)
            => /\ \E row \in observations : row.timestamp_utc = max_timestamp'[1]
               /\ \A row \in observations : row.timestamp_utc <= max_timestamp'[1]]_vars
    /\ C20_WindowsBounded

\* A fetch returned a row while the table held, for the same store, a row later than
\* now and a row earlier than the window start
C20_RowsLeftOut ==
    /\ last_fetch # <<>>
    /\ last_fetch[1].rows # <<>>
    /\ \E row \in observations : /\ row.store_id = last_fetch[1].store_id
                                /\ row.timestamp_utc > last_fetch[1].end_time
    /\ \E row \in observations : /\ row.store_id = last_fetch[1].store_id
                                /\ row.timestamp_utc < last_fetch[1].start_time

\* The job read wall-clock time from an empty table, rows were imported before it
\* listed the stores, and it fetched a window that ends at wall-clock time
C20_WallClockWindow ==
    /\ last_fetch # <<>>
    /\ last_fetch[1].end_time = WallClock
    /\ observations # {}

-----------------------------------------------------------------------------
(* Claims about the per-store lookups, checked under SpecLookup *)

\* C21: timezone resolution always yields a valid zone: validate_timezone(z)
\* returns z when z is a recognized zone and America/Chicago otherwise, a store
\* with no timezone row gets America/Chicago, and resolving the resolved zone
\* again returns it unchanged.
C21_TimezoneResolution ==
    /\ op = "validate_timezone" =>
          /\ out \in valid_timezones
          /\ arg[1] \in valid_timezones => out = arg[1]
          /\ arg[1] \notin valid_timezones => out = "America/Chicago"
          /\ validate_timezone(out) = out
    /\ op = "get_store_timezone" =>
          /\ out \in valid_timezones
          /\ arg = <<>> => out = "America/Chicago"
          /\ (arg # <<>> /\ arg[1].timezone_str \in valid_timezones)
                => out = arg[1].timezone_str
          /\ (arg # <<>> /\ arg[1].timezone_str \notin valid_timezones)
                => out = "America/Chicago"
          /\ validate_timezone(out) = out

\* The timezone of a store whose row names an unrecognized zone was resolved
C21_Witness ==
    /\ op = "get_store_timezone"
    /\ arg # <<>>
    /\ arg[1].timezone_str = "Invalid/Timezone"
    /\ out = "America/Chicago"

\* Whole-second local instants on each weekday: the grid times on days 0..6
WeekInstants ==
    {DateTime(d, GridTimes[k].hour, GridTimes[k].minute, GridTimes[k].second) :
        d \in 0..6, k \in 1..Len(GridTimes)}

\* Local timestamps of observations: StoreStatus.timestamp_utc is a DateTime with
\* microseconds, so besides the whole seconds there is 23:59:59.500000 of each day
ObservationInstants ==
    WeekInstants \cup {[DateTime(d, 23, 59, 59) EXCEPT !.us = 500000] : d \in 0..6}

\* The store had no business_hours rows, and get_business_hours answered
NoCalendar == op = "get_business_hours" /\ arg = <<>>

\* For a store with no calendar get_business_hours returns (00:00:00, 23:59:59)
\* for each weekday 0..6 and is_within_business_hours_enhanced is true at every
\* whole-second local instant of every day
C22_OpenAtWholeSeconds ==
    NoCalendar =>
        /\ DOMAIN out = 0..6
        /\ \A d \in 0..6 : out[d] = <<Time(0, 0, 0), Time(23, 59, 59)>>
        /\ \A t \in WeekInstants : is_within_business_hours_enhanced(t, out)

\* C22: a store with no configured calendar is treated as open 24/7:
\* get_business_hours returns (00:00:00, 23:59:59) for each weekday 0..6,
\* is_within_business_hours_enhanced is true at every whole-second local instant of
\* every day, and the filter of _calculate_period_metrics discards none of that
\* store's observations.
C22_OpenAlways ==
    /\ C22_OpenAtWholeSeconds
    /\ NoCalendar =>
          \A t \in ObservationInstants, z \in Timezones, status \in Statuses :
              LocalStatusData(<<[timestamp_utc |-> ToUtc(t, z), status |-> status]>>,
                              z, out) # <<>>

\* The row's two time strings both parse
Parses(hour) ==
    /\ parse_time_string(hour.start_time_local) # <<>>
    /\ parse_time_string(hour.end_time_local) # <<>>

\* The rows of a store's calendar, some of them malformed, were read
MalformedRow ==
    /\ op = "get_business_hours"
    /\ \E k \in 1..Len(arg) : ~Parses(arg[k])

\* "09:00:00" and "17:00" parse to 09:00:00 and 17:00:00; "25:00:00" and "closed"
\* raise ValueError
C23_Parsing ==
    /\ parse_time_string(<<"0", "9", ":", "0", "0", ":", "0", "0">>) = <<Time(9, 0, 0)>>
    /\ parse_time_string(<<"1", "7", ":", "0", "0">>) = <<Time(17, 0, 0)>>
    /\ parse_time_string(<<"6", ":", "0", "0">>) = <<Time(6, 0, 0)>>
    /\ parse_time_string(<<"2", "5", ":", "0", "0", ":", "0", "0">>) = <<>>
    /\ parse_time_string(<<"c", "l", "o", "s", "e", "d">>) = <<>>

\* C23: a malformed time string for one weekday is a silent substitution:
\* get_business_hours does not raise, the other weekdays keep their parsed
\* intervals, and the affected weekday falls back to the default interval, open
\* 00:00:00 to 23:59:59.
C23_MalformedDayDefault ==
    MalformedRow =>
        \A k \in 1..Len(arg) :
            /\ arg[k].day_of_week \in DOMAIN out
            /\ (~\E j \in 1..Len(arg) : j # k /\ arg[j].day_of_week = arg[k].day_of_week)
                  => out[arg[k].day_of_week] =
                        IF Parses(arg[k])
                        THEN <<parse_time_string(arg[k].start_time_local)[1],
                               parse_time_string(arg[k].end_time_local)[1]>>
                        ELSE <<Time(0, 0, 0), Time(23, 59, 59)>>

\* C23 as the code has it: a malformed row is skipped. get_business_hours does not
\* raise; each weekday has the interval of its last row whose two strings parse,
\* and a weekday without such a row has no interval at all (closed all day), also
\* when that leaves the calendar empty.
C23_MalformedDaySkipped ==
    /\ C23_Parsing
    /\ MalformedRow =>
          /\ DOMAIN out = {arg[k].day_of_week : k \in {j \in 1..Len(arg) : Parses(arg[j])}}
          /\ \A d \in DOMAIN out :
                LET last == CHOOSE k \in 1..Len(arg) :
                                /\ arg[k].day_of_week = d /\ Parses(arg[k])
                                /\ \A j \in (k + 1)..Len(arg) :
                                      ~(arg[j].day_of_week = d /\ Parses(arg[j]))
                IN  out[d] = <<parse_time_string(arg[last].start_time_local)[1],
                               parse_time_string(arg[last].end_time_local)[1]>>

\* Monday 09:00:00-17:00 and a malformed Tuesday: the calendar holds Monday only
C23_Witness ==
    /\ op = "get_business_hours"
    /\ Len(arg) = 2
    /\ arg[1] = [day_of_week |-> 0,
                 start_time_local |-> <<"0", "9", ":", "0", "0", ":", "0", "0">>,
                 end_time_local |-> <<"1", "7", ":", "0", "0">>]
    /\ arg[2].day_of_week = 1
    /\ arg[2].end_time_local = <<"c", "l", "o", "s", "e", "d">>
    /\ DOMAIN out = {0}
    /\ out[0] = <<Time(9, 0, 0), Time(17, 0, 0)>>
====
